---- MODULE Spec2Model ----
(***************************************************************************)
(* State-machine model of trmnl-web: the localStorage-backed session       *)
(* state and API layer of src/lib/trmnl-api.ts and the useTrmnl hook of    *)
(* src/hooks/useTrmnl.ts.                                                  *)
(*                                                                         *)
(* Encoding.  A JavaScript value that may be null is a tuple: <<>> is      *)
(* null and <<v>> is the value v.  A localStorage item is a tuple too:     *)
(* <<>> is an absent key and <<j>> holds the stored JSON value j.  Every   *)
(* asynchronous call is an activation record that is resumed by the        *)
(* action of the network response it awaits; what runs between two awaits  *)
(* is one atomic step, as on the single JavaScript thread.  localStorage   *)
(* writes are assumed to succeed (setStorageItem swallows a failure).      *)
(***************************************************************************)
EXTENDS Integers, Sequences, FiniteSets, TLC

VARIABLES
    storage,              \* localStorage: STORAGE_KEYS -> item
    now,                  \* Date.now(), in ms
    calls,                \* suspended async calls of the API layer, oldest first
    fetchInProgressRef,   \* useTrmnl: fetchInProgressRef.current
    isLoading,            \* useTrmnl: isLoading
    error,                \* useTrmnl: error (null or a message)
    state,                \* useTrmnl: the React copy of getState()
    effectNextFetch,      \* the state.nextFetch the nextFetch effect last ran for
    refreshTimeoutRef,    \* useTrmnl: refreshTimeoutRef.current (0 is null)
    countdownIntervalRef, \* useTrmnl: countdownIntervalRef.current (0 is null)
    timeouts,             \* outstanding refresh timeouts: set of [id, due]
    intervals,            \* outstanding countdown intervals: set of [id, period]
    cooldowns,            \* due times of the outstanding cooldown timeouts
    countdown,            \* useTrmnl: countdown string
    lastOp,               \* what the last step of a direct call of the API did
    userOps,              \* calls made so far by the user or by a client of the API
    awaitingFirstFetch,   \* history: a direct selectDevice has changed the device
                          \* and fetchImage has not been called since
    stateListeners,       \* useTrmnl.ts: the Set stateListeners, in insertion order
    invoked               \* the listeners notifyStateChange has called in this step

vars == <<storage, now, calls, fetchInProgressRef, isLoading, error, state,
          effectNextFetch, refreshTimeoutRef, countdownIntervalRef, timeouts,
          intervals, cooldowns, countdown, lastOp, userOps, awaitingFirstFetch,
          stateListeners, invoked>>

hookVars == <<fetchInProgressRef, isLoading, error, state, effectNextFetch,
              refreshTimeoutRef, countdownIntervalRef, timeouts, intervals,
              cooldowns, countdown>>

----------------------------------------------------------------------------
(* Bounds of the model *)

StartTime == 1000000       \* Date.now() when the page is opened
MaxElapsed == 1000         \* the clock of the page stops this long after StartTime
MaxApiElapsed == 2000      \* the same, where the API layer is driven directly
MaxBackoffElapsed == 700000 \* the same, where a session finds a stored backoff
MaxCalls == 2              \* suspended async calls at a time
MaxRetry == 2              \* no response makes retryCount exceed this
MaxBackoffRetry == 13      \* the same, where a session finds a stored backoff
MaxStoredRetry == 11       \* largest retryCount found in storage by a new session
MaxUserOps == 4            \* calls made by the user or by a client of the API
NetworkDelay == 1000       \* time an image download may take

(* Program constants *)

DEFAULT_REFRESH_RATE == 30
MAX_BACKOFF_MS == 300000
BACKOFF_BASE_MS == 1000
COOLDOWN_MS == 1000
TICKER_MS == 1000

None == <<>>
Some(v) == <<v>>

Min(a, b) == IF a <= b THEN a ELSE b
Max(a, b) == IF a >= b THEN a ELSE b

(* JavaScript truthiness of a number-or-null *)
TruthyNum(o) == o # None /\ o[1] # 0

----------------------------------------------------------------------------
(* Values the environment supplies *)

D1 == [id |-> "d1", api_key |-> "k1"]
D2 == [id |-> "d2", api_key |-> "k2"]
D3 == [id |-> "d3", api_key |-> ""]           \* a device entry without a key
DeviceLists == { <<>>, <<D1, D2>> }          \* bodies of GET /devices.json
ManualKeys == { "km" }                        \* arguments of saveManualApiKey
Environments == { "production", "development" }
ImageUrls == { "a", "b" }                     \* data.image_url
Filenames == { "", "s.png" }                  \* data.filename ("" is absent)
RefreshRates == { 0, 1 }                      \* data.refresh_rate (0 is absent)
ServerRefreshRates == { -1, 0, 1, 2 }         \* data.refresh_rate of any server
Blobs == { "p" }                              \* image bytes
Statuses == { 200, 401, 403, 429, 500 }

(* a pseudo-device that takes the key as its id *)
ManualDevice_KeyAsId(apiKey) == [id |-> apiKey, api_key |-> apiKey]

ManualDevice(apiKey) == [id |-> "manual", api_key |-> apiKey]

----------------------------------------------------------------------------
(* src/lib/trmnl-api.ts: storage *)

STORAGE_KEYS == { "environment", "devices", "selectedDevice", "currentImage",
                  "lastFetch", "nextFetch", "refreshRate", "retryCount",
                  "retryAfter", "firstSetupComplete" }

StateKeys == STORAGE_KEYS \ { "firstSetupComplete" }

EmptyStorage == [k \in STORAGE_KEYS |-> <<>>]

getStorageItem(st, key, defaultValue) ==
    IF st[key] = <<>> THEN defaultValue ELSE st[key][1]

setStorageItem(st, key, value) == [st EXCEPT ![key] = <<value>>]

getState(st) ==
    [ environment    |-> getStorageItem(st, "environment", "production"),
      devices        |-> getStorageItem(st, "devices", Some(<<>>)),
      selectedDevice |-> getStorageItem(st, "selectedDevice", None),
      currentImage   |-> getStorageItem(st, "currentImage", None),
      lastFetch      |-> getStorageItem(st, "lastFetch", None),
      nextFetch      |-> getStorageItem(st, "nextFetch", None),
      refreshRate    |-> getStorageItem(st, "refreshRate", DEFAULT_REFRESH_RATE),
      retryCount     |-> getStorageItem(st, "retryCount", 0),
      retryAfter     |-> getStorageItem(st, "retryAfter", None) ]

(* an update that writes every field, the ones left undefined as removed *)
updateState_WritesEveryField(st, updates) ==
    [k \in STORAGE_KEYS |->
        IF k \notin StateKeys THEN st[k]
        ELSE IF k \in DOMAIN updates THEN <<updates[k]>> ELSE <<>>]

(* updates is a record holding the fields that are not undefined *)
updateState(st, updates) ==
    [k \in STORAGE_KEYS |->
        IF k \in StateKeys /\ k \in DOMAIN updates
        THEN <<updates[k]>> ELSE st[k]]

(* a reset that removes the session fields and keeps the first-setup map *)
clearState_KeepsFirstSetup(st) ==
    [k \in STORAGE_KEYS |-> IF k \in StateKeys THEN <<>> ELSE st[k]]

clearState(st) == [k \in STORAGE_KEYS |-> <<>>]

(* the check of lines 514-520 answered from the flag of any device *)
hasCompletedFirstSetup_AnyDevice(st, deviceId) ==
    getStorageItem(st, "firstSetupComplete", {}) # {}

hasCompletedFirstSetup(st, deviceId) ==
    deviceId \in getStorageItem(st, "firstSetupComplete", {})

(* the flag set for the device selected when the call completes *)
markFirstSetupComplete_Selected(st, deviceId) ==
    LET d == getState(st).selectedDevice
    IN  setStorageItem(st, "firstSetupComplete",
            getStorageItem(st, "firstSetupComplete", {})
                \cup { IF d # None /\ d[1].id # "" THEN d[1].id ELSE "unknown" })

markFirstSetupComplete(st, deviceId) ==
    setStorageItem(st, "firstSetupComplete",
        getStorageItem(st, "firstSetupComplete", {}) \cup {deviceId})

getApiUrl(environment) == <<environment, "/api/current_screen">>
getDisplayUrl(environment) == <<environment, "/api/display">>
getDevicesUrl(environment) == <<environment, "/devices.json">>

RECURSIVE Pow2(_)
Pow2(n) == IF n <= 0 THEN 1 ELSE 2 * Pow2(n - 1)

(* the delay without its cap of five minutes *)
backoffMs_Uncapped(newRetryCount) == BACKOFF_BASE_MS * Pow2(newRetryCount)

backoffMs(newRetryCount) ==
    Min(BACKOFF_BASE_MS * Pow2(newRetryCount), MAX_BACKOFF_MS)

blobToDataUrl(blob) == "data:" \o blob

(* currentImage?.url || null *)
cachedUrl(currentImage) ==
    IF currentImage # None /\ currentImage[1].url # "" THEN Some(currentImage[1].url)
    ELSE None

(* selectedDevice?.api_key, as a string ("" when there is none) *)
apiKeyOf(selectedDevice) ==
    IF selectedDevice = None THEN "" ELSE selectedDevice[1].api_key

selectDevice(st, device) ==
    updateState(st, [selectedDevice |-> Some(device), retryCount |-> 0,
                     retryAfter |-> None])

setEnvironment(st, environment) == updateState(st, [environment |-> environment])

----------------------------------------------------------------------------
(* Network responses *)

NoBody == [image_url |-> "", filename |-> "", refresh_rate |-> 0]

(* What can come back for a metadata request: no response at all, a status  *)
(* without a usable body, a 2xx whose body does not parse, or a 2xx body.   *)
MetaResponsesWith(rates) ==
    { [kind |-> "network_error", status |-> 0, json |-> FALSE, body |-> NoBody] }
    \cup { [kind |-> "response", status |-> s, json |-> FALSE, body |-> NoBody] :
             s \in Statuses }
    \cup { [kind |-> "response", status |-> 200, json |-> TRUE,
            body |-> [image_url |-> u, filename |-> f, refresh_rate |-> r]] :
             u \in ImageUrls, f \in Filenames, r \in rates }

MetaResponses == MetaResponsesWith(RefreshRates)

(* What can come back for the image request: no response, a status, and     *)
(* for a 2xx the bytes, which the FileReader converts or fails to convert.  *)
ImageResponses ==
    { [kind |-> "network_error", ok |-> FALSE, blob |-> "", read |-> FALSE],
      [kind |-> "response", ok |-> FALSE, blob |-> "", read |-> FALSE] }
    \cup { [kind |-> "response", ok |-> TRUE, blob |-> b, read |-> rd] :
             b \in Blobs, rd \in BOOLEAN }

(* GET /devices.json: the body of a 2xx is a JSON array, the JSON value    *)
(* null, or does not parse.  A JSON value that may be null is None or       *)
(* Some(array).                                                             *)
DevicesResponses ==
    { [kind |-> "network_error", status |-> 0, json |-> FALSE, list |-> None] }
    \cup { [kind |-> "response", status |-> s, json |-> FALSE, list |-> None] :
             s \in Statuses }
    \cup { [kind |-> "response", status |-> 200, json |-> TRUE, list |-> l] :
             l \in { None } \cup { Some(d) : d \in DeviceLists } }

ResponseOk(status) == status >= 200 /\ status <= 299

----------------------------------------------------------------------------
(* src/lib/trmnl-api.ts: the asynchronous operations.  Each operator is the *)
(* code that runs between two awaits and yields a result record:            *)
(*   st      storage after the step                                         *)
(*   done    TRUE when the call has returned or thrown                      *)
(*   ret     the value returned                                             *)
(*   thrown  TRUE when an exception left the code of the step               *)
(*   call    the activation record of a call that is suspended again        *)
(*   net     the requests issued by the step                                *)
(*   outcome the branch taken                                               *)

Return(st, ret, outcome) ==
    [st |-> st, done |-> TRUE, ret |-> ret, thrown |-> FALSE, call |-> None,
     net |-> <<>>, outcome |-> outcome]

Throw(st) ==
    [st |-> st, done |-> TRUE, ret |-> None, thrown |-> TRUE, call |-> None,
     net |-> <<>>, outcome |-> "thrown"]

Await(st, call, request) ==
    [st |-> st, done |-> FALSE, ret |-> None, thrown |-> FALSE, call |-> Some(call),
     net |-> <<request>>, outcome |-> "awaiting"]

NewCall(op, caller) ==
    [op |-> op, caller |-> caller, pc |-> "meta", forceRefresh |-> FALSE,
     retryCount |-> 0, currentImage |-> None, deviceId |-> "", isFirstSetup |-> FALSE,
     url |-> <<>>, imageUrl |-> "", filename |-> "", refreshRate |-> 0,
     currentTime |-> 0, storedDevices |-> None]

(* fetchImage, lines 370-396: from the API key to the metadata request *)
fetchImageRequest(st, forceRefresh, caller) ==
    LET s == getState(st)
        apiKey == apiKeyOf(s.selectedDevice)
        deviceId == IF s.selectedDevice # None /\ s.selectedDevice[1].id # ""
                    THEN s.selectedDevice[1].id ELSE "unknown"
        isFirstSetup == ~hasCompletedFirstSetup(st, deviceId)
        API_URL == IF isFirstSetup THEN getDisplayUrl(s.environment)
                   ELSE getApiUrl(s.environment)
    IN  IF apiKey = ""
        THEN Return(st, None, "nokey")
        ELSE Await(st,
                   [NewCall("fetchImage", caller) EXCEPT
                       !.forceRefresh = forceRefresh,
                       !.retryCount = s.retryCount,
                       !.currentImage = s.currentImage,
                       !.deviceId = deviceId,
                       !.isFirstSetup = isFirstSetup,
                       !.url = API_URL],
                   API_URL)

(* fetchImage without the check of lines 364-368 *)
fetchImageBegin_NoBackoffCheck(st, t, forceRefresh, caller) ==
    fetchImageRequest(st, forceRefresh, caller)

(* fetchImage, lines 359-396: up to the metadata request *)
fetchImageBegin(st, t, forceRefresh, caller) ==
    LET s == getState(st)
    IN  IF TruthyNum(s.retryAfter) /\ t < s.retryAfter[1] /\ ~forceRefresh
        THEN Return(st, cachedUrl(s.currentImage), "backoff")
        ELSE fetchImageRequest(st, forceRefresh, caller)

(* the time of the next refresh, lines 437 and 458, with the refresh rate  *)
(* taken as milliseconds                                                    *)
nextFetchOf_Milliseconds(currentTime, refreshRate) == currentTime + refreshRate

(* the time of the next refresh, lines 437 and 458 *)
nextFetchOf(currentTime, refreshRate) == currentTime + refreshRate * 1000

(* the update of lines 401 and 248 that leaves the backoff state as it is *)
unauthorizedUpdate_KeepsBackoff(st) == st

(* updateState({ retryCount: 0, retryAfter: null }), lines 401 and 248 *)
unauthorizedUpdate(st) == updateState(st, [retryCount |-> 0, retryAfter |-> None])

(* a backoff update whose window is over when it is written *)
backoffUpdate_NoDelay(st, t, retryCount) ==
    updateState(st, [retryCount |-> retryCount + 1, retryAfter |-> Some(t)])

(* a backoff update that stores the new count without its deadline *)
backoffUpdate_CountOnly(st, t, retryCount) ==
    updateState(st, [retryCount |-> retryCount + 1])

(* the backoff update shared by the 429 branch and the catch block *)
backoffUpdate(st, t, retryCount) ==
    LET newRetryCount == retryCount + 1
        retryAfterTime == t + backoffMs(newRetryCount)
    IN  updateState(st, [retryCount |-> newRetryCount,
                         retryAfter |-> Some(retryAfterTime)])

(* fetchImage, lines 482-496: the catch block *)
fetchImageCatch(st, t, call) ==
    Return(backoffUpdate(st, t, call.retryCount), cachedUrl(call.currentImage),
           "failed")

(* the test of lines 431-435 without !forceRefresh *)
imageUnchanged_IgnoresForce(call, imageUrl) ==
    call.currentImage # None /\ call.currentImage[1].originalUrl = imageUrl

(* !forceRefresh && currentImage && currentImage.originalUrl === imageUrl,  *)
(* lines 431-435                                                            *)
imageUnchanged(call, imageUrl) ==
    /\ ~call.forceRefresh
    /\ call.currentImage # None
    /\ call.currentImage[1].originalUrl = imageUrl

(* fetchImage, lines 397-449: the try block from the metadata response on *)
fetchImageTryMeta(st, t, call, resp) ==
    IF resp.kind = "network_error" THEN Throw(st)
    ELSE IF resp.status = 401 \/ resp.status = 403
    THEN Return(unauthorizedUpdate(st), None, "unauthorized")
    ELSE IF resp.status = 429
    THEN Return(backoffUpdate(st, t, call.retryCount),
                cachedUrl(call.currentImage), "ratelimited")
    ELSE IF ~ResponseOk(resp.status) THEN Throw(st)
    ELSE IF ~resp.json THEN Throw(st)
    ELSE
    LET imageUrl == resp.body.image_url
        filename == IF resp.body.filename # "" THEN resp.body.filename
                    ELSE "display.jpg"
        refreshRate == IF resp.body.refresh_rate # 0 THEN resp.body.refresh_rate
                       ELSE DEFAULT_REFRESH_RATE
        currentTime == t
    IN  IF imageUnchanged(call, imageUrl)
        THEN Return(updateState(st, [refreshRate |-> refreshRate,
                                     lastFetch |-> Some(currentTime),
                                     nextFetch |-> Some(nextFetchOf(currentTime, refreshRate)),
                                     retryCount |-> 0,
                                     retryAfter |-> None]),
                    Some(call.currentImage[1].url), "unchanged")
        ELSE Await(st,
                   [call EXCEPT !.pc = "image", !.imageUrl = imageUrl,
                                !.filename = filename, !.refreshRate = refreshRate,
                                !.currentTime = currentTime],
                   imageUrl)

(* fetchImage, lines 449-481: the try block from the image response on *)
fetchImageTryImage(st, t, call, resp) ==
    IF resp.kind = "network_error" THEN Throw(st)
    ELSE IF ~resp.ok THEN Throw(st)
    ELSE IF ~resp.read THEN Throw(st)
    ELSE
    LET imageDataUrl == blobToDataUrl(resp.blob)
        nextFetch == nextFetchOf(call.currentTime, call.refreshRate)
        stored == updateState(st,
                    [currentImage |-> Some([url |-> imageDataUrl,
                                            originalUrl |-> call.imageUrl,
                                            filename |-> call.filename,
                                            timestamp |-> call.currentTime]),
                     lastFetch |-> Some(call.currentTime),
                     nextFetch |-> Some(nextFetch),
                     refreshRate |-> call.refreshRate,
                     retryCount |-> 0,
                     retryAfter |-> None])
    IN  Return(IF call.isFirstSetup THEN markFirstSetupComplete(stored, call.deviceId)
               ELSE stored,
               Some(imageDataUrl), "stored")

(* try { ... } catch { ... } of fetchImage *)
fetchImageResume(st, t, call, resp) ==
    LET r == IF call.pc = "meta" THEN fetchImageTryMeta(st, t, call, resp)
             ELSE fetchImageTryImage(st, t, call, resp)
    IN  IF r.thrown THEN fetchImageCatch(r.st, t, call) ELSE r

(* fetchNextScreen, lines 218-244: up to the metadata request *)
fetchNextScreenBegin(st, t, caller) ==
    LET s == getState(st)
        apiKey == apiKeyOf(s.selectedDevice)
        API_URL == getDisplayUrl(s.environment)
    IN  IF TruthyNum(s.retryAfter) /\ t < s.retryAfter[1]
        THEN Return(st, None, "backoff")
        ELSE IF apiKey = ""
        THEN Return(st, None, "nokey")
        ELSE Await(st,
                   [NewCall("fetchNextScreen", caller) EXCEPT
                       !.retryCount = s.retryCount, !.url = API_URL],
                   API_URL)

(* fetchNextScreen, lines 303-315: the catch block *)
fetchNextScreenCatch(st, t, call) ==
    Return(backoffUpdate(st, t, call.retryCount), None, "failed")

(* fetchNextScreen, lines 246-276: the try block from the metadata response on *)
fetchNextScreenTryMeta(st, t, call, resp) ==
    IF resp.kind = "network_error" THEN Throw(st)
    ELSE IF resp.status = 401 \/ resp.status = 403
    THEN Return(unauthorizedUpdate(st), None, "unauthorized")
    ELSE IF resp.status = 429
    THEN Return(backoffUpdate(st, t, call.retryCount), None, "ratelimited")
    ELSE IF ~ResponseOk(resp.status) THEN Throw(st)
    ELSE IF ~resp.json THEN Throw(st)
    ELSE Await(st,
               [call EXCEPT !.pc = "image", !.imageUrl = resp.body.image_url,
                   !.filename = IF resp.body.filename # "" THEN resp.body.filename
                                ELSE "display.jpg",
                   !.refreshRate = IF resp.body.refresh_rate # 0
                                   THEN resp.body.refresh_rate
                                   ELSE DEFAULT_REFRESH_RATE,
                   !.currentTime = t],
               resp.body.image_url)

(* fetchNextScreen, lines 276-302: the try block from the image response on *)
fetchNextScreenTryImage(st, t, call, resp) ==
    IF resp.kind = "network_error" THEN Throw(st)
    ELSE IF ~resp.ok THEN Throw(st)
    ELSE IF ~resp.read THEN Throw(st)
    ELSE
    LET imageDataUrl == blobToDataUrl(resp.blob)
        nextFetch == nextFetchOf(call.currentTime, call.refreshRate)
    IN  Return(updateState(st,
                    [currentImage |-> Some([url |-> imageDataUrl,
                                            originalUrl |-> call.imageUrl,
                                            filename |-> call.filename,
                                            timestamp |-> call.currentTime]),
                     lastFetch |-> Some(call.currentTime),
                     nextFetch |-> Some(nextFetch),
                     refreshRate |-> call.refreshRate,
                     retryCount |-> 0,
                     retryAfter |-> None]),
               Some(imageDataUrl), "stored")

(* try { ... } catch { ... } of fetchNextScreen *)
fetchNextScreenResume(st, t, call, resp) ==
    LET r == IF call.pc = "meta" THEN fetchNextScreenTryMeta(st, t, call, resp)
             ELSE fetchNextScreenTryImage(st, t, call, resp)
    IN  IF r.thrown THEN fetchNextScreenCatch(r.st, t, call) ELSE r

(* triggerSpecialFunction, lines 319-339: up to the request *)
triggerSpecialFunctionBegin(st, t, caller) ==
    LET s == getState(st)
        apiKey == apiKeyOf(s.selectedDevice)
        API_URL == getDisplayUrl(s.environment)
    IN  IF apiKey = ""
        THEN Return(st, FALSE, "nokey")
        ELSE Await(st, [NewCall("triggerSpecialFunction", caller) EXCEPT !.url = API_URL],
                   API_URL)

(* triggerSpecialFunction, lines 352-355: the catch block *)
triggerSpecialFunctionCatch(st, t, call) == Return(st, FALSE, "failed")

(* triggerSpecialFunction, lines 341-351: the try block from the response on *)
triggerSpecialFunctionTry(st, t, call, resp) ==
    IF resp.kind = "network_error" THEN Throw(st)
    ELSE IF resp.status = 401 \/ resp.status = 403
    THEN Return(st, FALSE, "unauthorized")
    ELSE IF ~ResponseOk(resp.status) THEN Throw(st)
    ELSE Return(st, TRUE, "triggered")

(* try { ... } catch { ... } of triggerSpecialFunction *)
triggerSpecialFunctionResume(st, t, call, resp) ==
    LET r == triggerSpecialFunctionTry(st, t, call, resp)
    IN  IF r.thrown THEN triggerSpecialFunctionCatch(r.st, t, call) ELSE r

(* fetchDevices, lines 158-167: up to the request *)
fetchDevicesBegin(st, t, environment, caller) ==
    LET url == getDevicesUrl(environment)
        storedDevices == getStorageItem(st, "devices", Some(<<>>))
    IN  Await(st, [NewCall("fetchDevices", caller) EXCEPT
                      !.url = url, !.storedDevices = storedDevices],
              url)

(* storedDevices.length > 0 ? storedDevices : orElse; reading the length of *)
(* null is a TypeError                                                      *)
storedDevicesOr(st, call, orElse, outcome) ==
    IF call.storedDevices = None THEN Throw(st)
    ELSE IF Len(call.storedDevices[1]) > 0
    THEN Return(st, call.storedDevices, outcome)
    ELSE orElse

(* fetchDevices, lines 198-204: the catch block *)
fetchDevicesCatch(st, t, call) ==
    storedDevicesOr(st, call, Return(st, None, "failed"), "failed")

(* line 193 with the test of the selection left out *)
noDeviceSelected_Always(s) == TRUE

(* !state.selectedDevice, line 193 *)
noDeviceSelected(s) == s.selectedDevice = None

(* fetchDevices, lines 169-197: the try block from the response on *)
fetchDevicesTry(st, t, call, resp) ==
    IF resp.kind = "network_error" THEN Throw(st)
    ELSE IF resp.status = 401 \/ resp.status = 403
    THEN storedDevicesOr(st, call, Return(st, None, "unauthorized"), "unauthorized")
    ELSE IF ~ResponseOk(resp.status)
    THEN storedDevicesOr(st, call, Throw(st), "failed")
    ELSE IF ~resp.json THEN Throw(st)
    ELSE
    LET devices == resp.list
        st1 == updateState(st, [devices |-> devices])
        s == getState(st1)
    IN  IF ~noDeviceSelected(s) THEN Return(st1, devices, "stored")
        ELSE IF devices = None THEN Throw(st1)
        ELSE IF Len(devices[1]) > 0
        THEN Return(updateState(st1, [selectedDevice |-> Some(devices[1][1])]),
                    devices, "stored")
        ELSE Return(st1, devices, "stored")

(* try { ... } catch { ... } of fetchDevices: what the catch block throws  *)
(* leaves the function                                                      *)
fetchDevicesResume(st, t, call, resp) ==
    LET r == fetchDevicesTry(st, t, call, resp)
    IN  IF r.thrown THEN fetchDevicesCatch(r.st, t, call) ELSE r

(* The code that resumes a suspended call when its response arrives *)
Resume(st, t, call, resp) ==
    IF call.op = "fetchImage" THEN fetchImageResume(st, t, call, resp)
    ELSE IF call.op = "fetchNextScreen" THEN fetchNextScreenResume(st, t, call, resp)
    ELSE IF call.op = "triggerSpecialFunction"
    THEN triggerSpecialFunctionResume(st, t, call, resp)
    ELSE fetchDevicesResume(st, t, call, resp)

(* The responses a suspended call can receive *)
ResponsesFor(call) ==
    IF call.op = "fetchDevices" THEN DevicesResponses
    ELSE IF call.pc = "image" THEN ImageResponses
    ELSE MetaResponsesWith(RefreshRates \cup ServerRefreshRates)

----------------------------------------------------------------------------
(* formatTimeRemaining, lines 533-548, at time t *)

(* n.toString() without padStart *)
pad_Unpadded(n) == ToString(n)

pad(n) == IF n < 10 THEN "0" \o ToString(n) ELSE ToString(n)

formatTimeRemaining(nextFetch, t) ==
    IF ~TruthyNum(nextFetch) THEN "Unknown"
    ELSE
    LET remaining == Max(0, nextFetch[1] - t)
        totalSeconds == remaining \div 1000
        hours == totalSeconds \div 3600
        minutes == (totalSeconds % 3600) \div 60
        seconds == totalSeconds % 60
    IN  IF hours > 0
        THEN pad(hours) \o ":" \o pad(minutes) \o ":" \o pad(seconds)
        ELSE pad(minutes) \o ":" \o pad(seconds)

----------------------------------------------------------------------------
(* src/hooks/useTrmnl.ts.  A handler is an operator from the world before  *)
(* it runs (storage, suspended calls, the hook's state) to the world after  *)
(* it; obs collects what the step did for lastOp.                           *)

NoObs == [api |-> "", idx |-> 0, outcome |-> "", ret |-> None, raised |-> FALSE,
          net |-> <<>>]

World == [storage |-> storage, calls |-> calls,
          fetchInProgressRef |-> fetchInProgressRef, isLoading |-> isLoading,
          error |-> error, state |-> state, effectNextFetch |-> effectNextFetch,
          refreshTimeoutRef |-> refreshTimeoutRef,
          countdownIntervalRef |-> countdownIntervalRef, timeouts |-> timeouts,
          intervals |-> intervals, cooldowns |-> cooldowns,
          countdown |-> countdown, obs |-> NoObs,
          stateListeners |-> stateListeners, invoked |-> <<>>]

(* the result r of a step of the idx-th suspended call (0: a new call) of  *)
(* the API function api enters the world; obs records it for a call made  *)
(* directly by a client of the API layer                                  *)
Observe(w, r, api, idx, caller) ==
    [w EXCEPT !.storage = r.st,
              !.obs = IF caller # "direct" THEN @
                      ELSE [api |-> api, idx |-> idx, outcome |-> r.outcome,
                            ret |-> r.ret, raised |-> r.thrown, net |-> r.net]]

FailedToLoad == "Failed to load image. Please check your API key."
TypeErrorMessage == "Cannot read properties of null (reading 'length')"
NoDevicesFound == "No devices found. Please enter your API key manually."

(* refreshState, lines 55-57, and handleStateChange, lines 45-47 *)
refreshState(w) == [w EXCEPT !.state = getState(w.storage)]

(* the listener the hook registers, lines 45-48; deletes names the        *)
(* listeners a listener deregisters when it is called                      *)
handleStateChange == [id |-> "handleStateChange", deletes |-> {}]

(* listener(), line 20 *)
callListener(w, listener) ==
    [(IF listener.id = "handleStateChange" THEN refreshState(w) ELSE w) EXCEPT
        !.stateListeners = SelectSeq(@, LAMBDA l : l.id \notin listener.deletes),
        !.invoked = Append(@, listener.id)]

RECURSIVE forEach_Array(_, _, _)
(* forEach of an array that the listeners splice: the i-th element of what *)
(* is left                                                                  *)
forEach_Array(w, entries, i) ==
    IF i > Len(w.stateListeners) THEN w
    ELSE forEach_Array(callListener(w, w.stateListeners[i]), entries, i + 1)

RECURSIVE forEach(_, _, _)
(* Set.prototype.forEach, line 20: the entries in insertion order, each    *)
(* called unless it has been deleted before its turn                       *)
forEach(w, entries, i) ==
    IF i > Len(entries) THEN w
    ELSE IF \A k \in 1..Len(w.stateListeners) : w.stateListeners[k] # entries[i]
    THEN forEach(w, entries, i + 1)
    ELSE forEach(callListener(w, entries[i]), entries, i + 1)

(* notifyStateChange, lines 19-21 *)
notifyStateChange(w) == forEach(w, w.stateListeners, 1)

(* loadImage, lines 90-96, and saveManualApiKey, lines 208-214: what follows *)
(* await fetchImage inside the try, and the catch                            *)
afterFetchImage(w, r) ==
    IF r.thrown THEN [w EXCEPT !.error = Some("Failed to load image")]
    ELSE refreshState([w EXCEPT !.error = IF r.ret = None \/ r.ret = Some("")
                                          THEN Some(FailedToLoad) ELSE @])

(* loadImage, lines 97-103: finally *)
loadImageFinally(w, t) ==
    [w EXCEPT !.isLoading = FALSE, !.cooldowns = @ \cup {t + COOLDOWN_MS}]

(* saveManualApiKey, lines 215-218: finally *)
saveManualApiKeyFinally(w) ==
    [w EXCEPT !.isLoading = FALSE, !.fetchInProgressRef = FALSE]

(* loadDevices, lines 66-74: what follows await fetchDevices *)
afterFetchDevices(w, r) ==
    LET w1 == IF r.thrown THEN [w EXCEPT !.error = Some(TypeErrorMessage)]
              ELSE refreshState([w EXCEPT !.error =
                        IF r.ret = None \/ Len(r.ret[1]) = 0
                        THEN Some(NoDevicesFound) ELSE @])
    IN  [w1 EXCEPT !.isLoading = FALSE]

(* the caller's continuation when the call it awaits has returned *)
Continue(w, t, caller, r) ==
    IF caller = "loadImage" THEN loadImageFinally(afterFetchImage(w, r), t)
    ELSE IF caller = "saveManualApiKey"
    THEN saveManualApiKeyFinally(afterFetchImage(w, r))
    ELSE IF caller = "loadDevices" THEN afterFetchDevices(w, r)
    ELSE w

(* a call made by caller either returns at once or is suspended *)
Called(w, t, caller, r, api) ==
    LET w1 == Observe(w, r, api, 0, caller)
    IN  IF r.done THEN Continue(w1, t, caller, r)
        ELSE [w1 EXCEPT !.calls = Append(@, r.call[1])]

(* loadImage, lines 78-106 *)
loadImage(w, t, forceRefresh) ==
    IF w.fetchInProgressRef THEN w
    ELSE
    LET w1 == [w EXCEPT !.fetchInProgressRef = TRUE, !.isLoading = TRUE,
                        !.error = None]
    IN  Called(w1, t, "loadImage",
               fetchImageBegin(w1.storage, t, forceRefresh, "loadImage"),
               "fetchImage")

(* saveManualApiKey, lines 185-221 *)
saveManualApiKey(w, t, apiKey) ==
    LET manualDevice == ManualDevice(apiKey)
        w1 == [w EXCEPT !.storage =
                  updateState(@, [devices |-> Some(<<manualDevice>>),
                                  selectedDevice |-> Some(manualDevice),
                                  retryCount |-> 0,
                                  retryAfter |-> None])]
        w2 == [notifyStateChange(w1) EXCEPT !.isLoading = TRUE, !.error = None]
    IN  Called(w2, t, "saveManualApiKey",
               fetchImageBegin(w2.storage, t, TRUE, "saveManualApiKey"),
               "fetchImage")

(* loadDevices, lines 60-75 *)
loadDevices(w, t) ==
    LET w1 == [w EXCEPT !.isLoading = TRUE, !.error = None]
    IN  Called(w1, t, "loadDevices",
               fetchDevicesBegin(w1.storage, t, w1.state.environment, "loadDevices"),
               "fetchDevices")

(* wrappedSelectDevice, lines 24-27 *)
wrappedSelectDevice(w, device) ==
    notifyStateChange([w EXCEPT !.storage = selectDevice(@, device)])

(* wrappedSetEnvironment, lines 29-32 *)
wrappedSetEnvironment(w, environment) ==
    notifyStateChange([w EXCEPT !.storage = setEnvironment(@, environment)])

(* the smallest timer id not in use *)
NewId(used) == CHOOSE i \in 1..(Cardinality(used) + 1) : i \notin used

(* updateCountdown, lines 114-117 *)
updateCountdown(w, t) ==
    [w EXCEPT !.countdown = formatTimeRemaining(getState(w.storage).nextFetch, t)]

(* setupRefreshTimer that leaves the timers it finds *)
clearTimers_KeepsThem(w) == w

(* "Clear existing timers", lines 121-129 *)
clearTimers(w) ==
    [w EXCEPT !.timeouts = { tm \in @ : tm.id # w.refreshTimeoutRef },
              !.refreshTimeoutRef = 0,
              !.intervals = { iv \in @ : iv.id # w.countdownIntervalRef },
              !.countdownIntervalRef = 0]

(* the time to the refresh counted from 0 instead of from Date.now() *)
timeToRefreshOf_FromZero(nextFetch, t) == nextFetch

(* currentState.nextFetch - Date.now(), line 137 *)
timeToRefreshOf(nextFetch, t) == nextFetch - t

(* setupRefreshTimer, lines 120-153 *)
setupRefreshTimer(w, t) ==
    LET w1 == clearTimers(w)
        currentState == getState(w1.storage)
        timeToRefresh == timeToRefreshOf(currentState.nextFetch[1], t)
        intervalId == NewId({ iv.id : iv \in w1.intervals })
        timeoutId == NewId({ tm.id : tm \in w1.timeouts })
    IN  IF ~TruthyNum(currentState.nextFetch)
        THEN [w1 EXCEPT !.countdown = "Unknown"]
        ELSE IF timeToRefresh <= 0
        THEN loadImage(w1, t, FALSE)
        ELSE [updateCountdown(w1, t) EXCEPT
                 !.intervals = @ \cup { [id |-> intervalId, period |-> TICKER_MS] },
                 !.countdownIntervalRef = intervalId,
                 !.timeouts = @ \cup { [id |-> timeoutId, due |-> t + timeToRefresh] },
                 !.refreshTimeoutRef = timeoutId]

(* the effect of lines 168-172 *)
nextFetchEffect(w, t) ==
    LET w1 == [w EXCEPT !.effectNextFetch = w.state.nextFetch]
    IN  IF TruthyNum(w.state.nextFetch) THEN setupRefreshTimer(w1, t) ELSE w1

(* the effect of lines 230-240 *)
initEffect(w, t) ==
    IF getState(w.storage).selectedDevice # None THEN loadImage(w, t, FALSE) ELSE w

(* useTrmnl, lines 34-41, on a fresh page over the storage st, and the      *)
(* effects of the first render in the order of their declaration            *)
mount(st, t) ==
    LET w0 == [storage |-> st, calls |-> <<>>, fetchInProgressRef |-> FALSE,
               isLoading |-> FALSE, error |-> None, state |-> getState(st),
               effectNextFetch |-> None, refreshTimeoutRef |-> 0,
               countdownIntervalRef |-> 0, timeouts |-> {}, intervals |-> {},
               cooldowns |-> {}, countdown |-> "--:--", obs |-> NoObs,
               stateListeners |-> <<handleStateChange>>, invoked |-> <<>>]
    IN  initEffect(nextFetchEffect(w0, t), t)

----------------------------------------------------------------------------
(* The state machine *)

(* React renders after the step and runs the effect of lines 168-172 when   *)
(* the rendered state.nextFetch has changed, before the next event          *)
Rendered(w, t) ==
    IF w.state.nextFetch # w.effectNextFetch THEN nextFetchEffect(w, t) ELSE w

Commit(w) ==
    /\ storage' = w.storage
    /\ calls' = w.calls
    /\ fetchInProgressRef' = w.fetchInProgressRef
    /\ isLoading' = w.isLoading
    /\ error' = w.error
    /\ state' = w.state
    /\ effectNextFetch' = w.effectNextFetch
    /\ refreshTimeoutRef' = w.refreshTimeoutRef
    /\ countdownIntervalRef' = w.countdownIntervalRef
    /\ timeouts' = w.timeouts
    /\ intervals' = w.intervals
    /\ cooldowns' = w.cooldowns
    /\ countdown' = w.countdown
    /\ lastOp' = w.obs
    /\ stateListeners' = w.stateListeners
    /\ invoked' = w.invoked
    /\ awaitingFirstFetch' =
          IF w.obs.api = "selectDevice"
          THEN getState(w.storage).selectedDevice # getState(storage).selectedDevice
               \/ awaitingFirstFetch
          ELSE IF w.obs.api = "clearState" \/ (w.obs.api = "fetchImage" /\ w.obs.idx = 0)
          THEN FALSE
          ELSE awaitingFirstFetch

(* a step of the program: the clock stands still, and the step stays       *)
(* within the bound on suspended calls                                      *)
Step(w) ==
    /\ Len(w.calls) <= MaxCalls
    /\ Commit(Rendered(w, now))
    /\ UNCHANGED <<now, userOps>>

(* a step taken by the user of the page or by a client of the API layer *)
UserStep(w) ==
    /\ userOps < MaxUserOps
    /\ userOps' = userOps + 1
    /\ Len(w.calls) <= MaxCalls
    /\ Commit(Rendered(w, now))
    /\ UNCHANGED now

Mounted(w) ==
    /\ storage = w.storage
    /\ calls = w.calls
    /\ fetchInProgressRef = w.fetchInProgressRef
    /\ isLoading = w.isLoading
    /\ error = w.error
    /\ state = w.state
    /\ effectNextFetch = w.effectNextFetch
    /\ refreshTimeoutRef = w.refreshTimeoutRef
    /\ countdownIntervalRef = w.countdownIntervalRef
    /\ timeouts = w.timeouts
    /\ intervals = w.intervals
    /\ cooldowns = w.cooldowns
    /\ countdown = w.countdown
    /\ lastOp = w.obs
    /\ awaitingFirstFetch = FALSE
    /\ stateListeners = w.stateListeners
    /\ invoked = w.invoked
    /\ userOps = 0

(* the page is opened for the first time: nothing is stored *)
Init ==
    /\ now = StartTime
    /\ Mounted(mount(EmptyStorage, StartTime))

(* --- the handlers of useTrmnl --- *)

(* the user asks for the image: loadImage(false) or forceRefresh() *)
LoadImage(forceRefresh) == UserStep(loadImage(World, now, forceRefresh))

SaveManualApiKey(apiKey) == UserStep(saveManualApiKey(World, now, apiKey))

LoadDevices == UserStep(loadDevices(World, now))

(* the device selector offers the devices of the rendered state *)
ChangeDevice(i) ==
    /\ state.devices # None
    /\ i \in 1..Len(state.devices[1])
    /\ UserStep(wrappedSelectDevice(World, state.devices[1][i]))

ChangeEnvironment(environment) ==
    UserStep(wrappedSetEnvironment(World, environment))

(* the refresh timeout of line 150 fires *)
RefreshTimeoutFires ==
    \E tm \in timeouts :
        /\ tm.due <= now
        /\ Step(loadImage([World EXCEPT !.timeouts = @ \ {tm}], now, FALSE))

(* the cooldown timeout of line 100 fires *)
CooldownFires ==
    \E due \in cooldowns :
        /\ due <= now
        /\ Step([World EXCEPT !.cooldowns = @ \ {due}, !.fetchInProgressRef = FALSE])

(* the countdown interval of line 147 fires *)
CountdownTick ==
    /\ intervals # {}
    /\ Step(updateCountdown(World, now))

(* the page is reloaded: storage survives, everything in memory is lost *)
Reload ==
    /\ userOps < MaxUserOps
    /\ userOps' = userOps + 1
    /\ Commit(mount(storage, now))
    /\ UNCHANGED now

(* the Reset button, lines 511-514: clear the storage and reload *)
Reset ==
    /\ userOps < MaxUserOps
    /\ userOps' = userOps + 1
    /\ Commit(mount(clearState(storage), now))
    /\ UNCHANGED now

(* --- the network --- *)

(* the world after the response resp has resumed the i-th suspended call *)
Resumed(i, resp) ==
    LET call == calls[i]
        r == Resume(storage, now, call, resp)
        rest == [j \in 1..(Len(calls) - 1) |-> IF j < i THEN calls[j] ELSE calls[j + 1]]
        w1 == Observe([World EXCEPT !.calls = IF r.done THEN rest
                                              ELSE [@ EXCEPT ![i] = r.call[1]]],
                      r, call.op, i, call.caller)
    IN  IF r.done THEN Continue(w1, now, call.caller, r) ELSE w1

(* the response awaited by the i-th suspended call arrives; maxRetry caps   *)
(* the retry counter                                                        *)
Respond(i, resp, maxRetry) ==
    /\ i \in 1..Len(calls)
    /\ resp \in ResponsesFor(calls[i])
    /\ getState(Resumed(i, resp).storage).retryCount <= maxRetry
    /\ Step(Resumed(i, resp))

MetadataResponds(i, resp, maxRetry) ==
    /\ i \in 1..Len(calls)
    /\ calls[i].op # "fetchDevices" /\ calls[i].pc = "meta"
    /\ Respond(i, resp, maxRetry)

ImageResponds(i, resp, maxRetry) ==
    /\ i \in 1..Len(calls)
    /\ calls[i].op # "fetchDevices" /\ calls[i].pc = "image"
    /\ Respond(i, resp, maxRetry)

DevicesRespond(i, resp) ==
    /\ i \in 1..Len(calls)
    /\ calls[i].op = "fetchDevices"
    /\ Respond(i, resp, MaxRetry)

(* --- the clock --- *)

(* Time passes up to the next instant at which something can change; a due *)
(* timeout runs before the clock moves on.                                  *)
Deadlines == { tm.due : tm \in timeouts } \cup cooldowns

Instants ==
    Deadlines
    \cup { getState(storage).retryAfter[j] : j \in 1..Len(getState(storage).retryAfter) }
    \cup { getState(storage).nextFetch[j] : j \in 1..Len(getState(storage).nextFetch) }
    \cup { calls[j].currentTime + NetworkDelay :
             j \in { k \in 1..Len(calls) : calls[k].pc = "image" } }

Tick(maxElapsed) ==
    /\ \E t \in Instants :
        /\ t > now
        /\ t <= StartTime + maxElapsed
        /\ \A d \in Deadlines : t <= d
        /\ now' = t
    /\ lastOp' = NoObs
    /\ invoked' = <<>>
    /\ UNCHANGED <<storage, calls, hookVars, userOps, awaitingFirstFetch, stateListeners>>

(* --- direct calls of the functions exported by trmnl-api.ts --- *)

ClientCall(r, api) == UserStep(Called(World, now, "direct", r, api))

FetchImage(forceRefresh) ==
    ClientCall(fetchImageBegin(storage, now, forceRefresh, "direct"), "fetchImage")

FetchNextScreen ==
    ClientCall(fetchNextScreenBegin(storage, now, "direct"), "fetchNextScreen")

TriggerSpecialFunction ==
    ClientCall(triggerSpecialFunctionBegin(storage, now, "direct"),
               "triggerSpecialFunction")

FetchDevices(environment) ==
    ClientCall(fetchDevicesBegin(storage, now, environment, "direct"), "fetchDevices")

SelectDevice(device) ==
    ClientCall(Return(selectDevice(storage, device), None, "done"), "selectDevice")

SetEnvironment(environment) ==
    ClientCall(Return(setEnvironment(storage, environment), None, "done"),
               "setEnvironment")

ClearState == ClientCall(Return(clearState(storage), None, "done"), "clearState")

----------------------------------------------------------------------------
(* Spec: the page.  Every handler of useTrmnl, driven by the user, the      *)
(* network and the timers.                                                  *)

PageMetaResponses ==
    { r \in MetaResponses :
        /\ r.status # 403
        /\ r.json => r.body = [image_url |-> "a", filename |-> "", refresh_rate |-> 1] }

PageDevicesResponses ==
    { r \in DevicesResponses :
        r.status \notin {403, 429} /\ (r.json => r.list = Some(<<D1, D2>>)) }

Next ==
    \/ \E forceRefresh \in BOOLEAN : LoadImage(forceRefresh)
    \/ \E apiKey \in ManualKeys : SaveManualApiKey(apiKey)
    \/ LoadDevices
    \/ \E i \in 1..2 : ChangeDevice(i)
    \/ \E environment \in Environments : ChangeEnvironment(environment)
    \/ \E i \in 1..MaxCalls : \E resp \in PageMetaResponses :
          MetadataResponds(i, resp, MaxRetry)
    \/ \E i \in 1..MaxCalls : \E resp \in ImageResponses : ImageResponds(i, resp, MaxRetry)
    \/ \E i \in 1..MaxCalls : \E resp \in PageDevicesResponses : DevicesRespond(i, resp)
    \/ RefreshTimeoutFires
    \/ CooldownFires
    \/ CountdownTick
    \/ Reload
    \/ Reset
    \/ Tick(MaxElapsed)

Spec == Init /\ [][Next]_vars

(* SpecApi: fetchImage and selectDevice of the API layer, called directly, *)
(* in any order and overlapping, by a client.                               *)

ApiDevices == { D1, D2 }

ApiMetaResponses ==
    { r \in MetaResponses : r.json => r.body.filename = "" }

NextApi ==
    \/ \E forceRefresh \in BOOLEAN : FetchImage(forceRefresh)
    \/ \E device \in ApiDevices : SelectDevice(device)
    \/ \E i \in 1..MaxCalls : \E resp \in ApiMetaResponses :
          MetadataResponds(i, resp, MaxRetry)
    \/ \E i \in 1..MaxCalls : \E resp \in ImageResponses : ImageResponds(i, resp, MaxRetry)
    \/ Tick(MaxApiElapsed)

SpecApi == Init /\ [][NextApi]_vars

(* SpecClient: every exported function of the API layer, called by a client *)
(* that awaits each call before it makes the next.                          *)

Awaited(A) == calls = <<>> /\ A

NextClient ==
    \/ \E forceRefresh \in BOOLEAN : Awaited(FetchImage(forceRefresh))
    \/ Awaited(FetchNextScreen)
    \/ Awaited(TriggerSpecialFunction)
    \/ \E environment \in Environments : Awaited(FetchDevices(environment))
    \/ \E device \in ApiDevices : Awaited(SelectDevice(device))
    \/ \E environment \in Environments : Awaited(SetEnvironment(environment))
    \/ Awaited(ClearState)
    \/ \E resp \in MetaResponses : MetadataResponds(1, resp, MaxRetry)
    \/ \E resp \in ImageResponses : ImageResponds(1, resp, MaxRetry)
    \/ \E resp \in DevicesResponses : DevicesRespond(1, resp)
    \/ Tick(MaxApiElapsed)

SpecClient == Init /\ [][NextClient]_vars

(* metadata responses whose refresh_rate is 1 *)
BackoffMetaResponses ==
    { r \in ApiMetaResponses : r.json => r.body.refresh_rate = 1 }

(* SpecSwitch: a session that finds in storage the device and the image of  *)
(* an earlier one (selectDevice(D1) and a completed fetchImage) and whose    *)
(* client calls fetchImage and selectDevice in any order and overlapping;    *)
(* one of the devices has no key.                                           *)

SwitchDevices == { D1, D2, D3 }

StoredSession ==
    LET st1 == selectDevice(EmptyStorage, D1)
        r1 == fetchImageBegin(st1, StartTime, FALSE, "direct")
        r2 == Resume(st1, StartTime, r1.call[1],
                     [kind |-> "response", status |-> 200, json |-> TRUE,
                      body |-> [image_url |-> "a", filename |-> "", refresh_rate |-> 1]])
        r3 == Resume(r2.st, StartTime, r2.call[1],
                     [kind |-> "response", ok |-> TRUE, blob |-> "p", read |-> TRUE])
    IN  r3.st

InitSwitch ==
    /\ now = StartTime
    /\ Mounted([mount(EmptyStorage, StartTime) EXCEPT !.storage = StoredSession])

NextSwitch ==
    \/ \E forceRefresh \in BOOLEAN : FetchImage(forceRefresh)
    \/ \E device \in SwitchDevices : SelectDevice(device)
    \/ \E i \in 1..MaxCalls : \E resp \in BackoffMetaResponses :
          MetadataResponds(i, resp, MaxRetry)
    \/ \E i \in 1..MaxCalls : \E resp \in ImageResponses : ImageResponds(i, resp, MaxRetry)
    \/ Tick(MaxApiElapsed)

SpecSwitch == InitSwitch /\ [][NextSwitch]_vars

(* SpecStore: the storage functions alone, with the items of localStorage   *)
(* as the JSON texts that setStorageItem writes.  In every other             *)
(* specification an item <<j>> stands for the text of the JSON value j.      *)

NullableKeys == { "devices", "selectedDevice", "currentImage", "lastFetch",
                  "nextFetch", "retryAfter" }

Quote(text) == "\"" \o text \o "\""

(* the JSON text of a Device, lines 13-19 (the model keeps id and api_key) *)
DeviceText(device) ==
    "{\"id\":" \o Quote(device.id) \o ",\"api_key\":" \o Quote(device.api_key) \o "}"

RECURSIVE DevicesText(_)
DevicesText(list) ==
    IF list = <<>> THEN ""
    ELSE DeviceText(Head(list))
         \o (IF Len(list) > 1 THEN "," \o DevicesText(Tail(list)) ELSE "")

(* the JSON text of a CurrentImage, lines 21-26 *)
ImageText(image) ==
    "{\"url\":" \o Quote(image.url) \o ",\"originalUrl\":" \o Quote(image.originalUrl)
    \o ",\"filename\":" \o Quote(image.filename)
    \o ",\"timestamp\":" \o ToString(image.timestamp) \o "}"

(* JSON.stringify of a value of the field key: null, a number, a quoted      *)
(* string, [] or the text of an object or array; never the empty text       *)
JSON_stringify(key, value) ==
    IF key \in NullableKeys /\ value = None THEN "null"
    ELSE CASE key = "environment" -> Quote(value)
           [] key = "devices" -> "[" \o DevicesText(value[1]) \o "]"
           [] key = "selectedDevice" -> DeviceText(value[1])
           [] key = "currentImage" -> ImageText(value[1])
           [] key \in {"lastFetch", "nextFetch", "retryAfter"} -> ToString(value[1])
           [] OTHER -> ToString(value)

(* valid values of the fields of TrmnlState, lines 28-38 *)
FieldValues(key) ==
    CASE key = "environment" -> Environments
      [] key = "devices" -> { Some(<<>>), Some(<<D1>>) }
      [] key = "selectedDevice" -> { None, Some(D1) }
      [] key = "currentImage" ->
            { Some([url |-> blobToDataUrl("p"), originalUrl |-> "a",
                    filename |-> "display.jpg", timestamp |-> StartTime]) }
      [] key = "lastFetch" -> { Some(StartTime) }
      [] key = "nextFetch" -> { None, Some(StartTime + 1000) }
      [] key = "refreshRate" -> { 1 }
      [] key = "retryCount" -> { 0, 1 }
      [] key = "retryAfter" -> { None, Some(StartTime + 2 * BACKOFF_BASE_MS) }

(* JSON.parse of a text that JSON.stringify wrote for the field key *)
JSON_parse(key, text) ==
    CHOOSE value \in FieldValues(key) : JSON_stringify(key, value) = text

(* getStorageItem, lines 55-62: item is null (<<>>) or a text, and a text    *)
(* is truthy unless it is empty                                             *)
getStorageItem_Json(ls, key, defaultValue) ==
    LET item == ls[key]
    IN  IF item # <<>> /\ item[1] # "" THEN JSON_parse(key, item[1]) ELSE defaultValue

(* setStorageItem, lines 64-70 *)
setStorageItem_Json(ls, key, value) ==
    [ls EXCEPT ![key] = <<JSON_stringify(key, value)>>]

(* the defaults of getState, lines 73-97 *)
Defaults == getState(EmptyStorage)

(* getState, lines 73-97 *)
getState_Json(ls) ==
    [key \in StateKeys |-> getStorageItem_Json(ls, key, Defaults[key])]

(* updateState that tests `if (updates.field)` instead of `!== undefined` *)
updateState_Json_SkipsFalsy(ls, updates) ==
    [key \in STORAGE_KEYS |->
        IF /\ key \in StateKeys /\ key \in DOMAIN updates
           /\ JSON_stringify(key, updates[key]) \notin {"null", "0"}
        THEN setStorageItem_Json(ls, key, updates[key])[key] ELSE ls[key]]

(* updateState, lines 100-129 *)
updateState_Json(ls, updates) ==
    [key \in STORAGE_KEYS |->
        IF key \in StateKeys /\ key \in DOMAIN updates
        THEN setStorageItem_Json(ls, key, updates[key])[key] ELSE ls[key]]

(* the updates a caller passes: one field, or two fields together *)
FieldPairs == { <<"retryCount", "retryAfter">>, <<"lastFetch", "nextFetch">>,
                <<"devices", "selectedDevice">>, <<"environment", "refreshRate">> }

StoreUpdates ==
    UNION { { [key \in {k} |-> v] : v \in FieldValues(k) } : k \in StateKeys }
    \cup UNION { { [key \in {p[1], p[2]} |-> IF key = p[1] THEN v1 ELSE v2] :
                    v1 \in FieldValues(p[1]), v2 \in FieldValues(p[2]) } :
                 p \in FieldPairs }

UpdateState(updates) ==
    /\ storage' = updateState_Json(storage, updates)
    /\ lastOp' = [NoObs EXCEPT !.api = "updateState"]
    /\ invoked' = <<>>
    /\ UNCHANGED <<now, calls, hookVars, userOps, awaitingFirstFetch, stateListeners>>

RemoveAll ==
    /\ storage' = clearState(storage)
    /\ lastOp' = [NoObs EXCEPT !.api = "clearState"]
    /\ invoked' = <<>>
    /\ UNCHANGED <<now, calls, hookVars, userOps, awaitingFirstFetch, stateListeners>>

NextStore ==
    \/ \E updates \in StoreUpdates : UpdateState(updates)
    \/ RemoveAll

SpecStore == Init /\ [][NextStore]_vars

(* SpecListeners: notifyStateChange over a registry that holds, besides the *)
(* hook's handleStateChange, two listeners that deregister a listener when  *)
(* they are called.                                                         *)

ListenerIds == { "handleStateChange", "l1", "l2" }

OtherListeners ==
    { [id |-> i, deletes |-> d] :
        i \in ListenerIds \ { "handleStateChange" },
        d \in { {} } \cup { { j } : j \in ListenerIds } }

(* the orders in which the three listeners can have been added to the Set *)
Registrations ==
    { q \in [1..3 -> OtherListeners \cup { handleStateChange }] :
        \A i \in ListenerIds : \E k \in 1..3 : q[k].id = i }

InitListeners ==
    /\ now = StartTime
    /\ \E q \in Registrations :
          Mounted([mount(EmptyStorage, StartTime) EXCEPT !.stateListeners = q])

NextListeners ==
    \/ \E apiKey \in ManualKeys : SaveManualApiKey(apiKey)
    \/ ChangeDevice(1)
    \/ \E environment \in Environments : ChangeEnvironment(environment)

SpecListeners == InitListeners /\ [][NextListeners]_vars

(* SpecRate: fetchImage called by a client that awaits each call, with a    *)
(* server whose refresh_rate is any integer.                                *)

RateMetaResponses ==
    { r \in MetaResponsesWith(ServerRefreshRates) :
        IF r.json THEN r.body.filename = "" ELSE r.status \in {200, 500} }

NextRate ==
    \/ Awaited(SelectDevice(D1))
    \/ \E forceRefresh \in BOOLEAN : Awaited(FetchImage(forceRefresh))
    \/ \E resp \in RateMetaResponses : MetadataResponds(1, resp, MaxRetry)
    \/ \E resp \in ImageResponses : ImageResponds(1, resp, MaxRetry)
    \/ Tick(MaxApiElapsed)

SpecRate == Init /\ [][NextRate]_vars

(* SpecFormat: formatTimeRemaining alone, called at any time for a stored   *)
(* nextFetch before, at and after the clock.                                *)

MaxFormatElapsed == 3000   \* the clock of SpecFormat stops this long after StartTime

FormatDeadlines ==
    { None }
    \cup { Some(StartTime + d) :
             d \in { -1000, 0, 999, 1000, 2500, 59999, 60000, 3599000, 3602999,
                     3603000, 3661000, 36000000, 360000000 } }

InitFormat ==
    /\ now = StartTime
    /\ \E nextFetch \in FormatDeadlines :
          Mounted([mount(EmptyStorage, StartTime) EXCEPT
                      !.storage = updateState(EmptyStorage, [nextFetch |-> nextFetch])])

(* formatTimeRemaining(getState().nextFetch), as updateCountdown calls it *)
FormatTimeRemaining ==
    /\ countdown' = formatTimeRemaining(getState(storage).nextFetch, now)
    /\ lastOp' = [NoObs EXCEPT !.api = "formatTimeRemaining"]
    /\ invoked' = <<>>
    /\ UNCHANGED <<storage, now, calls, fetchInProgressRef, isLoading, error, state,
                   effectNextFetch, refreshTimeoutRef, countdownIntervalRef, timeouts,
                   intervals, cooldowns, userOps, awaitingFirstFetch, stateListeners>>

(* time passes between two calls *)
Elapse(ms) ==
    /\ now + ms <= StartTime + MaxFormatElapsed
    /\ now' = now + ms
    /\ lastOp' = NoObs
    /\ invoked' = <<>>
    /\ UNCHANGED <<storage, calls, hookVars, userOps, awaitingFirstFetch, stateListeners>>

NextFormat ==
    \/ FormatTimeRemaining
    \/ \E ms \in { 1, 500, 1000 } : Elapse(ms)

SpecFormat == InitFormat /\ [][NextFormat]_vars

(* SpecBackoff: a session that finds in storage the retry counter left by   *)
(* an earlier one, its backoff window over, and calls fetchImage.           *)

StoredBackoff(n) ==
    updateState(selectDevice(EmptyStorage, D1),
                [retryCount |-> n,
                 retryAfter |-> IF n = 0 THEN None ELSE Some(StartTime)])

InitBackoff ==
    /\ now = StartTime
    /\ \E n \in 0..MaxStoredRetry :
          Mounted([mount(EmptyStorage, StartTime) EXCEPT !.storage = StoredBackoff(n)])

NextBackoff ==
    \/ \E forceRefresh \in BOOLEAN : Awaited(FetchImage(forceRefresh))
    \/ \E resp \in BackoffMetaResponses : MetadataResponds(1, resp, MaxBackoffRetry)
    \/ \E resp \in ImageResponses : ImageResponds(1, resp, MaxBackoffRetry)
    \/ Tick(MaxBackoffElapsed)

SpecBackoff == InitBackoff /\ [][NextBackoff]_vars

----------------------------------------------------------------------------
(* The claims *)

BackoffActive ==
    LET s == getState(storage)
    IN  TruthyNum(s.retryAfter) /\ now < s.retryAfter[1]

(* C1: fetchImage(false) called while retryAfter is set and now <            *)
(* retryAfter issues no network request, changes no stored field, and       *)
(* returns currentImage.url if there is a cached image, else null.          *)
C1_BackoffShortCircuit ==
    [][ (BackoffActive /\ FetchImage(FALSE)) =>
            /\ storage' = storage
            /\ calls' = calls
            /\ lastOp'.net = <<>>
            /\ lastOp'.ret = cachedUrl(getState(storage).currentImage) ]_vars

(* a call in a backoff window has returned the cached image *)
C1_Witness ==
    /\ BackoffActive
    /\ lastOp.api = "fetchImage" /\ lastOp.idx = 0
    /\ lastOp.net = <<>>
    /\ lastOp.ret # None

(* the delay the specification gives for the retry count n after a failure *)
ExpectedDelay(n) == IF n >= 9 THEN 300000 ELSE 1000 * 2^n

FailingMetaResponses ==
    { r \in ApiMetaResponses :
        r.kind = "network_error" \/ (r.status # 200 /\ r.status \notin {401, 403}) }

FailingImageResponses ==
    { r \in ImageResponses : ~(r.kind = "response" /\ r.ok /\ r.read) }

(* C2: every failing fetchImage attempt (429, another non-2xx, a network    *)
(* error, a failed image download) stores retryCount = the count the call   *)
(* read + 1 and retryAfter = now + min(1000 * 2^retryCount, 300000): 2000   *)
(* ms at count 1, 300000 ms at every count >= 9.                            *)
C2_FailureBackoff ==
    [][ \A resp \in FailingMetaResponses \cup FailingImageResponses :
          (\/ MetadataResponds(1, resp, MaxBackoffRetry)
           \/ ImageResponds(1, resp, MaxBackoffRetry)) =>
              LET n == calls[1].retryCount + 1
              IN  /\ getState(storage').retryCount = n
                  /\ getState(storage').retryAfter = Some(now + ExpectedDelay(n))
                  /\ n = 1 => getState(storage').retryAfter = Some(now + 2000)
                  /\ n >= 9 => getState(storage').retryAfter = Some(now + 300000) ]_vars

(* a failure at a retry count beyond the saturation point has been stored *)
C2_Witness ==
    /\ lastOp.api = "fetchImage" /\ lastOp.idx = 1
    /\ getState(storage).retryCount = 10
    /\ getState(storage).retryAfter = Some(now + 300000)

(* C3: across any interleaving of the hook's operations the stored          *)
(* retryCount never decreases from one state to the next, except when it is *)
(* reset to 0 (stated here with every reset to 0 allowed, whatever makes    *)
(* it).                                                                     *)
C3_RetryCountNeverDecreases ==
    [][ \/ getState(storage').retryCount >= getState(storage).retryCount
        \/ getState(storage').retryCount = 0 ]_vars

ImageRequests(cs) == { j \in 1..Len(cs) : cs[j].pc = "image" }

(* C4: when fetchImage(false) receives a 2xx metadata response whose        *)
(* image_url equals the stored currentImage.originalUrl, it issues no       *)
(* image-byte request and leaves the currentImage record unchanged.         *)
C4_UnchangedImageSkipsDownload ==
    [][ \A i \in 1..MaxCalls : \A resp \in PageMetaResponses :
          LET cur == getState(storage).currentImage
          IN  (/\ resp.json
               /\ i <= Len(calls)
               /\ calls[i].op = "fetchImage" /\ ~calls[i].forceRefresh
               /\ cur # None
               /\ cur[1].originalUrl = resp.body.image_url
               /\ MetadataResponds(i, resp, MaxRetry)) =>
                  /\ Cardinality(ImageRequests(calls')) <= Cardinality(ImageRequests(calls))
                  /\ getState(storage').currentImage = cur ]_vars

FetchImageInFlight == { i \in 1..Len(calls) : calls[i].op = "fetchImage" }

(* C5: at every moment at most one fetchImage operation is in flight,       *)
(* whatever triggers it.                                                    *)
C5_AtMostOneFetchInFlight == Cardinality(FetchImageInFlight) <= 1

LoadImageOutstanding == \E i \in 1..Len(calls) : calls[i].caller = "loadImage"

InCooldown == \E due \in cooldowns : now < due

(* C6: a loadImage request that arrives while another loadImage is          *)
(* outstanding, or within the 1000 ms cooldown after it completed, is       *)
(* dropped: it issues no network request, under every interleaving with the *)
(* other operations of the hook.                                            *)
C6_OverlappingLoadImageDropped ==
    [][ \A forceRefresh \in BOOLEAN :
          ((LoadImageOutstanding \/ InCooldown) /\ LoadImage(forceRefresh)) =>
              calls' = calls ]_vars

FirstSetupDone == getStorageItem(storage, "firstSetupComplete", {})

SelectedId ==
    LET d == getState(storage).selectedDevice
    IN  IF d # None /\ d[1].id # "" THEN d[1].id ELSE "unknown"

(* C7: for a device id whose firstSetupComplete flag is not set, fetchImage *)
(* sends its metadata request to /api/display, and to /api/current_screen   *)
(* once the flag is set; the flag of an id becomes true only in the step in *)
(* which the image download of a call routed to /api/display for that id    *)
(* succeeds, and that step sets it.                                         *)
C7_FirstSetupRouting ==
    [][ /\ (lastOp'.api = "fetchImage" /\ lastOp'.idx = 0 /\ lastOp'.net # <<>>) =>
              lastOp'.net[1][2] = IF SelectedId \in FirstSetupDone
                                  THEN "/api/current_screen" ELSE "/api/display"
        /\ \A id \in FirstSetupDone' \ FirstSetupDone :
              /\ lastOp'.api = "fetchImage"
              /\ lastOp'.idx \in 1..Len(calls)
              /\ calls[lastOp'.idx].pc = "image"
              /\ calls[lastOp'.idx].deviceId = id
              /\ calls[lastOp'.idx].url[2] = "/api/display"
              /\ lastOp'.ret # None
              /\ lastOp'.ret = cachedUrl(getState(storage').currentImage)
              /\ getState(storage').retryCount = 0
        /\ (/\ lastOp'.api = "fetchImage" /\ lastOp'.outcome = "stored"
             /\ calls[lastOp'.idx].url[2] = "/api/display") =>
                calls[lastOp'.idx].deviceId \in FirstSetupDone' ]_vars

(* the flag of d1 is set and a later fetchImage has gone to the standard    *)
(* endpoint                                                                 *)
C7_Witness ==
    /\ FirstSetupDone = {"d1"}
    /\ SelectedId = "d1"
    /\ lastOp.api = "fetchImage" /\ lastOp.idx = 0
    /\ lastOp.net = << <<"production", "/api/current_screen">> >>

(* C8: once a fetchImage call for a device id has completed successfully    *)
(* after a 2xx metadata response, by downloading the image or through the   *)
(* unchanged-image path, firstSetupComplete[id] is true, and a flag that is *)
(* true stays true.                                                         *)
C8_DisplayRoutingOnce ==
    [][ /\ \A i \in 1..MaxCalls :
              (/\ i <= Len(calls)
               /\ lastOp'.api = "fetchImage" /\ lastOp'.idx = i
               /\ lastOp'.outcome \in {"stored", "unchanged"}) =>
                  calls[i].deviceId \in FirstSetupDone'
        /\ FirstSetupDone \subseteq FirstSetupDone' ]_vars

RefreshItems(st) == <<st["lastFetch"], st["nextFetch"], st["refreshRate"]>>

(* C9: in every reachable stored state, if nextFetch is set then lastFetch  *)
(* is set and nextFetch = lastFetch + refreshRate * 1000; lastFetch,        *)
(* nextFetch and refreshRate are written only together, in one update, also *)
(* when fetches overlap or complete out of order.                           *)
C9_NextFetchFormula ==
    /\ [](LET s == getState(storage)
          IN  s.nextFetch # None =>
                  /\ s.lastFetch # None
                  /\ s.nextFetch[1] = s.lastFetch[1] + s.refreshRate * 1000)
    /\ [][ RefreshItems(storage') # RefreshItems(storage) =>
              /\ \A k \in {"lastFetch", "nextFetch"} :
                     storage'[k] # <<>> /\ storage'[k][1] # None
              /\ storage'["refreshRate"] # <<>>
              /\ lastOp'.api = "fetchImage" /\ lastOp'.idx \in 1..Len(calls)
              /\ getState(storage').lastFetch[1] <= now ]_vars

(* a later call has stored its image while an earlier one is still          *)
(* downloading the image of an older response                               *)
C9_Witness ==
    /\ getState(storage).nextFetch # None
    /\ getState(storage).refreshRate = DEFAULT_REFRESH_RATE
    /\ \E i \in ImageRequests(calls) :
          calls[i].currentTime < getState(storage).lastFetch[1]

(* C10: fetchImage, fetchNextScreen, triggerSpecialFunction and             *)
(* fetchDevices never raise to their caller, whatever the metadata request, *)
(* the body parse and the image download come to.                           *)
C10_NeverRaises == lastOp.raised = FALSE

RateLimited == { r \in MetaResponses : r.kind = "response" /\ r.status = 429 }

(* C11: on HTTP 429 every authenticated call (fetchImage, fetchNextScreen,  *)
(* triggerSpecialFunction) increments retryCount by one and sets retryAfter *)
(* = now + min(1000 * 2^retryCount, 300000), and the image-returning calls  *)
(* return the cached image URL, not null, whenever a cached image exists.   *)
C11_RateLimitedContract ==
    [][ \A resp \in RateLimited :
          MetadataResponds(1, resp, MaxRetry) =>
              LET s == getState(storage)
                  n == s.retryCount + 1
              IN  /\ getState(storage').retryCount = n
                  /\ getState(storage').retryAfter = Some(now + ExpectedDelay(n))
                  /\ calls[1].op \in {"fetchImage", "fetchNextScreen"} =>
                         lastOp'.ret = cachedUrl(s.currentImage) ]_vars

Unauthorized == { r \in MetaResponses : r.kind = "response" /\ r.status \in {401, 403} }

(* C12: on HTTP 401 or 403 from the metadata request, fetchImage and        *)
(* fetchNextScreen set retryCount = 0 and retryAfter = null, return null,   *)
(* and leave currentImage, lastFetch, nextFetch, refreshRate and the        *)
(* first-setup flags (and every other stored item) unchanged.               *)
C12_UnauthorizedResetsRetry ==
    [][ \A resp \in Unauthorized :
          (/\ MetadataResponds(1, resp, MaxRetry)
           /\ calls[1].op \in {"fetchImage", "fetchNextScreen"}) =>
              /\ getState(storage').retryCount = 0
              /\ getState(storage').retryAfter = None
              /\ lastOp'.ret = None /\ ~lastOp'.raised
              /\ \A k \in STORAGE_KEYS \ {"retryCount", "retryAfter"} :
                     storage'[k] = storage[k] ]_vars

(* an unauthorized response has been answered with null while an image and  *)
(* a refresh time are stored, after time has passed                         *)
C12_Witness ==
    /\ lastOp.api \in {"fetchImage", "fetchNextScreen"}
    /\ lastOp.outcome = "unauthorized" /\ lastOp.ret = None
    /\ getState(storage).currentImage # None
    /\ getState(storage).nextFetch # None
    /\ getState(storage).retryAfter = None
    /\ now > StartTime

(* the value the i-th suspended call returns when resp resumes it *)
Returned(i, resp) == Resume(storage, now, calls[i], resp).ret

PageFailingResponses ==
    { r \in PageMetaResponses : r.kind = "network_error" \/ r.status \in {429, 500}
                                  \/ (r.status = 200 /\ ~r.json) }
    \cup FailingImageResponses

(* C13: when a fetchImage attempt fails (429, another non-2xx, a network    *)
(* error, a malformed response, a failed image download), currentImage,     *)
(* lastFetch, nextFetch, refreshRate and the first-setup flags are left     *)
(* unchanged and the call returns the stored image URL if there is one,     *)
(* else null.                                                               *)
C13_FailureKeepsImage ==
    [][ \A i \in 1..MaxCalls : \A resp \in PageFailingResponses :
          (\/ MetadataResponds(i, resp, MaxRetry)
           \/ ImageResponds(i, resp, MaxRetry)) =>
              /\ \A k \in {"currentImage", "lastFetch", "nextFetch", "refreshRate",
                            "firstSetupComplete"} : storage'[k] = storage[k]
              /\ Returned(i, resp) = cachedUrl(getState(storage).currentImage) ]_vars

KeyedDeviceSelected == apiKeyOf(getState(storage).selectedDevice) # ""

(* C14: while a device with an API key is selected and the view stays       *)
(* mounted, automatic refresh never stops: after every fetch attempt,       *)
(* a failed one included, another attempt is eventually made without any    *)
(* user action. Without a user action a fetch attempt follows only from a   *)
(* request in flight (its completion re-arms the scheduler) or from an      *)
(* armed refresh timer, so the claim requires that one of the two exists    *)
(* whenever refresh has been running and the last attempt has failed.       *)
C14_AutoRefreshStaysScheduled ==
    (/\ KeyedDeviceSelected
     /\ getState(storage).nextFetch # None
     /\ getState(storage).retryCount > 0)
        => (calls # <<>> \/ timeouts # {})

(* C15: at any time at most one refresh timer and at most one countdown     *)
(* ticker are outstanding, and they are the ones the refs hold: re-arming   *)
(* cancels the armed timer and ticker before it creates new ones.           *)
C15_OneTimerOneTicker ==
    /\ Cardinality(timeouts) <= 1
    /\ Cardinality(intervals) <= 1
    /\ \A tm \in timeouts : tm.id = refreshTimeoutRef
    /\ \A iv \in intervals : iv.id = countdownIntervalRef

(* the scheduler has been re-armed for a second deadline after the first    *)
(* timer fired, and one timer and one ticker are outstanding                *)
C15_Witness ==
    /\ Cardinality(intervals) = 1
    /\ \E tm \in timeouts : tm.due > StartTime + 1000 * 1

C17_RetryAfterWindow ==
    [][ /\ lastOp'.outcome \in {"failed", "ratelimited"} =>
              /\ getState(storage').retryAfter # None
              /\ getState(storage').retryAfter[1] > now
              /\ getState(storage').retryAfter[1] <= now + MAX_BACKOFF_MS
        /\ lastOp'.outcome \in {"stored", "unchanged", "unauthorized"} =>
              getState(storage').retryAfter = None ]_vars

(* an attempt has succeeded after a stored backoff window has passed, and   *)
(* no window is left                                                        *)
C17_Witness ==
    /\ lastOp.outcome \in {"stored", "unchanged"}
    /\ getState(storage).retryAfter = None
    /\ now >= StartTime + MAX_BACKOFF_MS

(* C18: selectDevice(d) sets selectedDevice = d, retryCount = 0 and         *)
(* retryAfter = null and changes nothing else, and the new device gets a    *)
(* clean attempt: the first fetchImage(false) issued after a selection      *)
(* that changed the device is never suppressed by a backoff window (the     *)
(* selection cleared the window, so one that is active at that call was     *)
(* written afterwards by a fetch that was in flight at the selection).      *)
C18_CleanAttemptAfterSelect ==
    [][ /\ \A device \in SwitchDevices :
              SelectDevice(device) =>
                  /\ getState(storage').selectedDevice = Some(device)
                  /\ getState(storage').retryCount = 0
                  /\ getState(storage').retryAfter = None
                  /\ \A k \in STORAGE_KEYS \ {"selectedDevice", "retryCount", "retryAfter"} :
                         storage'[k] = storage[k]
        /\ (/\ awaitingFirstFetch
            /\ lastOp'.api = "fetchImage" /\ lastOp'.idx = 0)
               => lastOp'.outcome # "backoff" ]_vars

(* C19: whenever no device is selected or the selected device has no        *)
(* api_key, fetchImage (with either value of forceRefresh) returns null,    *)
(* issues no network request, and leaves retryCount, retryAfter and every   *)
(* other stored item unchanged.                                             *)
C19_NoKeyNoAttempt ==
    [][ (/\ ~KeyedDeviceSelected
         /\ lastOp'.api = "fetchImage" /\ lastOp'.idx = 0)
            => /\ lastOp'.ret = None
               /\ lastOp'.net = <<>>
               /\ storage' = storage ]_vars

FailingDevicesResponses ==
    { r \in DevicesResponses : r.kind = "network_error" \/ ~ResponseOk(r.status) }

(* C20: on HTTP 401/403, on any other non-2xx status and on network         *)
(* failure, fetchDevices returns the previously stored device list when it  *)
(* is non-empty and null otherwise, does not raise, and leaves the stored   *)
(* devices and selectedDevice unchanged.                                    *)
C20_FetchDevicesFailure ==
    [][ \A resp \in FailingDevicesResponses :
          DevicesRespond(1, resp) =>
              LET stored == getState(storage).devices
              IN  /\ ~lastOp'.raised
                  /\ lastOp'.ret = IF stored # None /\ Len(stored[1]) > 0
                                    THEN stored ELSE None
                  /\ storage'["devices"] = storage["devices"]
                  /\ storage'["selectedDevice"] = storage["selectedDevice"] ]_vars

DeviceListResponses == { r \in DevicesResponses : r.json /\ r.list # None }

(* C21: on a 2xx response that carries a device list fetchDevices stores    *)
(* the list as devices and returns it, and it sets selectedDevice to the    *)
(* first entry if and only if no device was selected and the list is        *)
(* non-empty; an existing selection is never replaced.                      *)
C21_FetchDevicesSuccess ==
    [][ \A resp \in DeviceListResponses :
          DevicesRespond(1, resp) =>
              LET selected == getState(storage).selectedDevice
              IN  /\ storage'["devices"] = <<resp.list>>
                  /\ lastOp'.ret = resp.list /\ ~lastOp'.raised
                  /\ getState(storage').selectedDevice =
                        IF selected = None /\ Len(resp.list[1]) > 0
                        THEN Some(resp.list[1][1]) ELSE selected ]_vars

(* fetchDevices has stored a list whose first entry is not the selected     *)
(* device, and the selection is still there                                 *)
C21_Witness ==
    /\ lastOp.api = "fetchDevices" /\ lastOp.outcome = "stored"
    /\ getState(storage).devices = Some(<<D1, D2>>)
    /\ getState(storage).selectedDevice = Some(D2)

(* the items of the model's storage that the texts of localStorage stand for *)
ParsedStorage ==
    [key \in STORAGE_KEYS |->
        IF key \notin StateKeys \/ storage[key] = <<>> THEN <<>>
        ELSE <<JSON_parse(key, storage[key][1])>>]

(* C22: updateState(fields) followed by getState() returns exactly the      *)
(* written values for the fields passed and the previous values for the     *)
(* fields not passed; a default (production, [], null, 30, 0) is returned   *)
(* only for a field that is not stored, and a stored null, 0 or empty list  *)
(* is returned as it was stored.                                            *)
C22_StoreLoadRoundTrip ==
    /\ [](\A key \in StateKeys :
            LET value == getState_Json(storage)[key]
            IN  /\ storage[key] = <<>> => value = Defaults[key]
                /\ storage[key] # <<>> => storage[key][1] = JSON_stringify(key, value)
                /\ value = getState(ParsedStorage)[key])
    /\ [][ \A updates \in StoreUpdates :
              UpdateState(updates) =>
                  \A key \in StateKeys :
                      getState_Json(storage')[key] =
                          IF key \in DOMAIN updates THEN updates[key]
                          ELSE getState_Json(storage)[key] ]_vars

(* null, 0 and the empty list have been written over stored values and are  *)
(* what getState returns                                                    *)
C22_Witness ==
    /\ lastOp.api = "updateState"
    /\ storage["retryAfter"] = <<"null">> /\ getState_Json(storage).retryAfter = None
    /\ storage["retryCount"] = <<"0">> /\ getState_Json(storage).retryCount = 0
    /\ storage["devices"] = <<"[]">> /\ getState_Json(storage).devices = Some(<<>>)
    /\ storage["refreshRate"] = <<"1">>

(* C23: clearState removes every persisted field including the first-setup  *)
(* map: afterwards getState() returns the defaults (environment production, *)
(* no devices, no selection, no image, lastFetch/nextFetch/retryAfter null, *)
(* refreshRate 30, retryCount 0) and every device id is again routed as     *)
(* first-setup by fetchImage.                                               *)
C23_ClearStateRemovesAll ==
    [][ /\ lastOp'.api = "clearState" =>
              /\ \A k \in STORAGE_KEYS : storage'[k] = <<>>
              /\ getState(storage') =
                    [environment |-> "production", devices |-> Some(<<>>),
                     selectedDevice |-> None, currentImage |-> None,
                     lastFetch |-> None, nextFetch |-> None,
                     refreshRate |-> 30, retryCount |-> 0, retryAfter |-> None]
              /\ \A device \in {D1, D2, D3} :
                     ~hasCompletedFirstSetup(storage', device.id)
        /\ (/\ storage["firstSetupComplete"] = <<>>
            /\ lastOp'.api = "fetchImage" /\ lastOp'.idx = 0
            /\ lastOp'.outcome = "awaiting")
               => lastOp'.net = <<getDisplayUrl(getState(storage).environment)>> ]_vars

(* clearState has returned, after earlier calls that include a fetchImage   *)
(* request, and nothing is stored                                          *)
C23_Witness ==
    /\ lastOp.api = "clearState"
    /\ storage = EmptyStorage
    /\ userOps >= 3 /\ now > StartTime

(* C24: fetchImage(true) ignores both an active backoff window and the      *)
(* unchanged-image check: whenever an API key is present it issues the      *)
(* metadata request even if now < retryAfter, and on 2xx it downloads the   *)
(* image bytes and replaces currentImage even if image_url equals           *)
(* currentImage.originalUrl.                                                *)
C24_ForceRefresh ==
    [][ /\ (KeyedDeviceSelected /\ FetchImage(TRUE)) =>
              /\ lastOp'.outcome = "awaiting"
              /\ \E environment \in Environments :
                     lastOp'.net \in { <<getDisplayUrl(environment)>>,
                                       <<getApiUrl(environment)>> }
        /\ \A i \in 1..MaxCalls : \A resp \in BackoffMetaResponses :
              (/\ resp.json
               /\ i <= Len(calls) /\ calls[i].forceRefresh
               /\ MetadataResponds(i, resp, MaxRetry)) =>
                  /\ lastOp'.outcome = "awaiting"
                  /\ lastOp'.net = <<resp.body.image_url>>
        /\ \A i \in 1..MaxCalls : \A resp \in ImageResponses :
              (/\ resp.kind = "response" /\ resp.ok /\ resp.read
               /\ i <= Len(calls) /\ calls[i].forceRefresh
               /\ ImageResponds(i, resp, MaxRetry)) =>
                  getState(storage').currentImage =
                      Some([url |-> blobToDataUrl(resp.blob),
                            originalUrl |-> calls[i].imageUrl,
                            filename |-> calls[i].filename,
                            timestamp |-> calls[i].currentTime]) ]_vars

(* inside a backoff window a forced call is downloading the image whose     *)
(* URL is the one of the stored image                                       *)
C24_Witness ==
    /\ BackoffActive
    /\ getState(storage).currentImage # None
    /\ \E i \in 1..Len(calls) :
          /\ calls[i].forceRefresh /\ calls[i].pc = "image"
          /\ calls[i].imageUrl = getState(storage).currentImage[1].originalUrl

(* the nextFetch effect has run setupRefreshTimer in this step *)
SchedulerArmed ==
    /\ effectNextFetch' # effectNextFetch \/ Reload
    /\ TruthyNum(effectNextFetch')
    /\ TruthyNum(getState(storage').nextFetch)

(* C25: when the scheduler is armed with nextFetch in the future it         *)
(* schedules one timer that triggers a non-forced loadImage at nextFetch    *)
(* and one 1-second ticker; when nextFetch has already elapsed at arm time  *)
(* it triggers loadImage immediately and arms neither a timer nor a ticker. *)
C25_SchedulerArming ==
    [][ /\ SchedulerArmed =>
              LET nextFetch == getState(storage').nextFetch[1]
              IN  IF nextFetch > now
                  THEN /\ timeouts' = { [id |-> refreshTimeoutRef', due |-> nextFetch] }
                       /\ intervals' = { [id |-> countdownIntervalRef', period |-> 1000] }
                  ELSE /\ timeouts' = {} /\ intervals' = {}
                       /\ fetchInProgressRef'
        /\ RefreshTimeoutFires =>
              /\ \E tm \in timeouts : tm.due = now /\ tm \notin timeouts'
              /\ fetchInProgressRef'
              /\ Len(calls') > Len(calls) =>
                    /\ calls'[Len(calls')].caller = "loadImage"
                    /\ ~calls'[Len(calls')].forceRefresh ]_vars

(* the scheduler was armed when nextFetch had elapsed: no timer and no      *)
(* ticker are armed and the loadImage it triggered is in flight             *)
C25_Witness ==
    /\ TruthyNum(effectNextFetch) /\ effectNextFetch[1] <= now
    /\ getState(storage).nextFetch = effectNextFetch
    /\ timeouts = {} /\ intervals = {}
    /\ \E i \in 1..Len(calls) : calls[i].caller = "loadImage" /\ ~calls[i].forceRefresh

(* C26: saveManualApiKey(key) replaces devices with a single pseudo-device  *)
(* with the fixed id 'manual' and api_key = key, sets that device as        *)
(* selectedDevice, sets retryCount = 0 and retryAfter = null, notifies the  *)
(* listeners, and then starts fetchImage(true) immediately, also when       *)
(* another fetch is in flight or the cooldown is active.                    *)
C26_SaveManualApiKey ==
    [][ \A key \in ManualKeys :
          SaveManualApiKey(key) =>
            LET s == getState(storage')
                pseudo == [id |-> "manual", api_key |-> key]
            IN  /\ s.devices = Some(<<pseudo>>)
                /\ s.selectedDevice = Some(pseudo)
                /\ s.retryCount = 0
                /\ s.retryAfter = None
                /\ state' = s
                /\ Len(calls') = Len(calls) + 1
                /\ calls'[Len(calls')].caller = "saveManualApiKey"
                /\ calls'[Len(calls')].forceRefresh
                /\ calls'[Len(calls')].pc = "meta"
                /\ calls'[Len(calls')].op = "fetchImage"
                /\ calls'[Len(calls')].deviceId = "manual" ]_vars

(* a key was saved while a loadImage fetch was in flight: both calls are    *)
(* outstanding, the in-progress flag still set by the first                 *)
C26_Witness ==
    /\ Len(calls) = 2
    /\ calls[1].caller = "loadImage" /\ calls[1].op = "fetchImage"
    /\ calls[2].caller = "saveManualApiKey" /\ calls[2].forceRefresh
    /\ fetchInProgressRef
    /\ getState(storage).selectedDevice = Some([id |-> "manual", api_key |-> "km"])

(* C27: notifyStateChange invokes every registered listener once,           *)
(* synchronously, after the stored mutation of selectDevice, setEnvironment *)
(* or saveManualApiKey has been written; a listener that deregisters itself *)
(* or another listener during the pass does not prevent any                 *)
(* still-registered listener from being invoked in that pass.               *)
C27_NotifyStateChange ==
    [][ /\ \A environment \in Environments :
              ChangeEnvironment(environment) =>
                  getState(storage').environment = environment
        /\ ChangeDevice(1) =>
              getState(storage').selectedDevice = Some(state.devices[1][1])
        /\ \A key \in ManualKeys :
              SaveManualApiKey(key) =>
                  getState(storage').selectedDevice = Some(ManualDevice(key))
        /\ NextListeners =>
              /\ stateListeners # <<>> => invoked' # <<>> /\ invoked'[1] = stateListeners[1].id
              /\ \A k \in 1..Len(stateListeners') :
                    \E j \in 1..Len(invoked') : invoked'[j] = stateListeners'[k].id
              /\ \A j1, j2 \in 1..Len(invoked') : invoked'[j1] = invoked'[j2] => j1 = j2
              /\ \A j \in 1..Len(invoked') :
                    \E k \in 1..Len(stateListeners) : stateListeners[k].id = invoked'[j]
              /\ (\E j \in 1..Len(invoked') : invoked'[j] = "handleStateChange")
                    => state' = getState(storage') ]_vars

(* a pass in which l1 was called first and deregistered, and the hook's     *)
(* listener and l2, still registered, were called after it                  *)
C27_Witness ==
    /\ invoked = <<"l1", "handleStateChange", "l2">>
    /\ Len(stateListeners) = 2
    /\ stateListeners[1] = handleStateChange
    /\ stateListeners[2].id = "l2"
    /\ state = getState(storage)
    /\ state.selectedDevice # None

C29_RateLimitNotAnError ==
    [][ \A i \in 1..MaxCalls : \A resp \in PageMetaResponses \cap RateLimited :
          (/\ MetadataResponds(i, resp, MaxRetry)
           /\ calls[i].caller = "loadImage") => error' = None ]_vars

(* C30: the stored refreshRate is always a positive integer: 30 before any  *)
(* successful fetch, and after every 2xx metadata response the server's     *)
(* refresh_rate when that is a positive integer, else 30 (also when an      *)
(* earlier response had supplied another value).  The rate of a 2xx         *)
(* response is stored at once on the unchanged-image path and with the      *)
(* downloaded image otherwise.                                              *)
C30_RefreshRatePositive ==
    /\ [](/\ getState(storage).refreshRate \in Nat \ {0}
          /\ getState(storage).lastFetch = None => getState(storage).refreshRate = 30)
    /\ [][ /\ \A resp \in { r \in RateMetaResponses : r.json } :
                MetadataResponds(1, resp, MaxRetry) =>
                    LET expected == IF resp.body.refresh_rate > 0
                                    THEN resp.body.refresh_rate ELSE 30
                    IN  IF calls' = <<>>
                        THEN getState(storage').refreshRate = expected
                        ELSE calls'[1].refreshRate = expected
           /\ \A resp \in ImageResponses \ FailingImageResponses :
                ImageResponds(1, resp, MaxRetry) =>
                    getState(storage').refreshRate = calls[1].refreshRate ]_vars

(* the decimal digit d as a character *)
DigitChar(d) ==
    CASE d = 0 -> "0" [] d = 1 -> "1" [] d = 2 -> "2" [] d = 3 -> "3" [] d = 4 -> "4"
      [] d = 5 -> "5" [] d = 6 -> "6" [] d = 7 -> "7" [] d = 8 -> "8" [] d = 9 -> "9"

(* n written with at least two digits *)
TwoDigits(n) ==
    IF n < 100 THEN DigitChar(n \div 10) \o DigitChar(n % 10) ELSE ToString(n)

(* C31: formatTimeRemaining(nextFetch) returns 'Unknown' when nextFetch is  *)
(* not set; otherwise, with s = floor(max(0, nextFetch - now) / 1000), it   *)
(* returns the zero-padded HH:MM:SS form when s >= 3600 and the zero-padded *)
(* MM:SS form when s < 3600, and '00:00' for every deadline that has        *)
(* already passed.                                                          *)
C31_FormatTimeRemaining ==
    lastOp.api = "formatTimeRemaining" =>
        LET nextFetch == getState(storage).nextFetch
        IN  IF nextFetch = None THEN countdown = "Unknown"
            ELSE LET d == nextFetch[1] - now
                     s == (IF d > 0 THEN d ELSE 0) \div 1000
                     h == s \div 3600
                     m == (s - 3600 * h) \div 60
                     sec == s - 3600 * h - 60 * m
                 IN  /\ s >= 3600 =>
                           countdown = TwoDigits(h) \o ":" \o TwoDigits(m) \o ":" \o TwoDigits(sec)
                     /\ s < 3600 => countdown = TwoDigits(m) \o ":" \o TwoDigits(sec)
                     /\ nextFetch[1] <= now => countdown = "00:00"

(* the function was called one millisecond after the page was opened, with  *)
(* 3660999 ms left: the fraction of a second is dropped                     *)
C31_Witness ==
    /\ lastOp.api = "formatTimeRemaining"
    /\ getState(storage).nextFetch = Some(StartTime + 3661000)
    /\ now = StartTime + 1
    /\ countdown = "01:01:00"

(* C32: in every reachable stored state retryCount = 0 exactly when         *)
(* retryAfter is null: every operation that writes one of the two fields    *)
(* writes both in the same update, either resetting both or storing a       *)
(* count >= 1 together with a deadline, under every interleaving of fetches *)
(* and user actions.                                                        *)
C32_RetryPairConsistent ==
    /\ [](getState(storage).retryCount = 0 <=> getState(storage).retryAfter = None)
    /\ [][ (\/ storage'["retryCount"] # storage["retryCount"]
            \/ storage'["retryAfter"] # storage["retryAfter"]) =>
              \/ /\ getState(storage').retryCount = 0
                 /\ getState(storage').retryAfter = None
                 /\ storage'["retryCount"] = <<>> <=> storage'["retryAfter"] = <<>>
              \/ /\ storage'["retryCount"] # <<>> /\ storage'["retryAfter"] # <<>>
                 /\ getState(storage').retryCount >= 1
                 /\ getState(storage').retryAfter # None
                 /\ getState(storage').retryAfter[1] > now ]_vars

(* two failures are stored as count 2 with its deadline while another       *)
(* fetch is still in flight                                                 *)
C32_Witness ==
    /\ getState(storage).retryCount = 2
    /\ getState(storage).retryAfter = Some(now + 4000)
    /\ Len(calls) >= 1

====
